---- MODULE Spec2Model ----
(***************************************************************************)
(* Gradient (Sobolev) smoothing solver of SU2: the pipeline of             *)
(* CGradientSmoothingSolver::ApplyGradientSmoothing, the local operator of *)
(* CGradSmoothing::Compute_Tangent_Matrix and the gradient computation of  *)
(* CElement.                                                               *)
(*                                                                         *)
(* su2double values are modelled as exact rationals <<num, den>> with      *)
(* den > 0 in lowest terms.  <<0, 0>> stands for every non-finite value    *)
(* (inf, NaN): a division by zero produces it and it is absorbing.         *)
(* Indices are 0-based as in the source.                                   *)
(***************************************************************************)
EXTENDS Integers, Sequences, FiniteSets, TLC

(* ------------------------------------------------------------------ *)
(* su2double arithmetic                                                *)
(* ------------------------------------------------------------------ *)

Abs(n) == IF n < 0 THEN -n ELSE n

RECURSIVE GCD(_, _)
GCD(a, b) == IF b = 0 THEN a ELSE GCD(b, a % b)

NaN == <<0, 0>>

Norm(n, d) ==
  IF d = 0 THEN NaN
  ELSE LET g == GCD(Abs(n), Abs(d))
       IN  IF d > 0 THEN <<n \div g, d \div g>>
                    ELSE <<(-n) \div g, (-d) \div g>>

R(n) == <<n, 1>>

Frac(n, d) == Norm(n, d)

Zero == R(0)

One == R(1)

IsFinite(x) == x[2] # 0

Add(x, y) ==
  IF x[2] = 0 \/ y[2] = 0 THEN NaN
  ELSE Norm(x[1] * y[2] + y[1] * x[2], x[2] * y[2])

Sub(x, y) ==
  IF x[2] = 0 \/ y[2] = 0 THEN NaN
  ELSE Norm(x[1] * y[2] - y[1] * x[2], x[2] * y[2])

Mul(x, y) ==
  IF x[2] = 0 \/ y[2] = 0 THEN NaN
  ELSE Norm(x[1] * y[1], x[2] * y[2])

(* x / y: a zero divisor gives a non-finite value, no trap. *)
Div(x, y) ==
  IF x[2] = 0 \/ y[2] = 0 \/ y[1] = 0 THEN NaN
  ELSE Norm(x[1] * y[2], x[2] * y[1])

AbsR(x) == <<Abs(x[1]), x[2]>>

(* Integer square root, rounded down. *)
ISqrt(n) == CHOOSE r \in 0..n : r * r <= n /\ n < (r + 1) * (r + 1)

(* sqrt(x): exact on the squares of rationals; a negative argument gives  *)
(* a non-finite value.                                                    *)
Sqrt(x) ==
  IF x[2] = 0 \/ x[1] < 0 THEN NaN ELSE Norm(ISqrt(x[1]), ISqrt(x[2]))

(* Sum of f[0] .. f[n-1], accumulated from zero in index order. *)
RECURSIVE SumR(_, _)
SumR(f, n) == IF n = 0 THEN Zero ELSE Add(SumR(f, n - 1), f[n - 1])

(* ------------------------------------------------------------------ *)
(* Element families: the fixed tables of the linear simplex elements   *)
(* ------------------------------------------------------------------ *)

TRIANGLE == "TRIANGLE"
QUADRILATERAL == "QUADRILATERAL"
TETRAHEDRON == "TETRAHEDRON"
PYRAMID == "PYRAMID"
PRISM == "PRISM"
HEXAHEDRON == "HEXAHEDRON"
LINE == "LINE"

EL_TRIA == 0
EL_QUAD == 1
EL_TETRA == 0
EL_HEXA == 1
EL_PYRAM == 2
EL_PRISM == 3

(* One-point triangle: weight 1/2, Ni = (Xi, Eta, 1-Xi-Eta) at (1/3,1/3). *)
CTRIA1 ==
  [nNodes |-> 3, nGaussPoints |-> 1,
   GaussWeight |-> [g \in {0} |-> Frac(1, 2)],
   Ni |-> [g \in {0} |-> [n \in 0..2 |-> Frac(1, 3)]],
   dNiXj |-> [g \in {0} |->
     [n \in 0..2 |-> [d \in 0..1 |->
        IF n = 2 THEN R(-1) ELSE IF n = d THEN One ELSE Zero]]]]

(* One-point tetrahedron: weight 1/6, Ni = (Xi, Eta, 1-Xi-Eta-Zeta, Zeta). *)
CTETRA1 ==
  [nNodes |-> 4, nGaussPoints |-> 1,
   GaussWeight |-> [g \in {0} |-> Frac(1, 6)],
   Ni |-> [g \in {0} |-> [n \in 0..3 |-> Frac(1, 4)]],
   dNiXj |-> [g \in {0} |->
     [n \in 0..3 |-> [d \in 0..2 |->
        IF n = 2 THEN R(-1)
        ELSE IF (n = 0 /\ d = 0) \/ (n = 1 /\ d = 1) \/ (n = 3 /\ d = 2)
             THEN One ELSE Zero]]]]

(* The abscissa 1/sqrt(3) of the two-point Gauss rule is not rational: the *)
(* table is built on a rational abscissa next to it.                       *)
GaussAbscissa == Frac(4, 7)

(* Xi and Eta of the four Gauss points and of the four nodes of the quadrilateral. *)
QuadSign == <<<<-1, -1>>, <<1, -1>>, <<1, 1>>, <<-1, 1>>>>

(* Four-point quadrilateral: weights 1, Ni = (1 +- Xi)(1 +- Eta)/4. *)
CQUAD4 ==
  LET Xi(g) == Mul(R(QuadSign[g + 1][1]), GaussAbscissa)
      Eta(g) == Mul(R(QuadSign[g + 1][2]), GaussAbscissa)
      a(n, g) == Add(One, Mul(R(QuadSign[n + 1][1]), Xi(g)))
      b(n, g) == Add(One, Mul(R(QuadSign[n + 1][2]), Eta(g)))
  IN  [nNodes |-> 4, nGaussPoints |-> 4,
       GaussWeight |-> [g \in 0..3 |-> One],
       Ni |-> [g \in 0..3 |-> [n \in 0..3 |-> Mul(Frac(1, 4), Mul(a(n, g), b(n, g)))]],
       dNiXj |-> [g \in 0..3 |-> [n \in 0..3 |-> [d \in 0..1 |->
          IF d = 0 THEN Mul(Frac(QuadSign[n + 1][1], 4), b(n, g))
                   ELSE Mul(Frac(QuadSign[n + 1][2], 4), a(n, g))]]]]

(* One-point line: weight 2, Ni = ((1-Xi)/2, (1+Xi)/2) at Xi = 0. *)
CLINE ==
  [nNodes |-> 2, nGaussPoints |-> 1,
   GaussWeight |-> [g \in {0} |-> R(2)],
   Ni |-> [g \in {0} |-> [n \in 0..1 |-> Frac(1, 2)]],
   dNiXj |-> [g \in {0} |->
     [n \in 0..1 |-> [d \in {0} |-> IF n = 0 THEN Frac(-1, 2) ELSE Frac(1, 2)]]]]

(* The handlers the constructor allocates that the meshes explored use:  *)
(* triangle and quadrilateral in 2D, tetrahedron in 3D.                  *)
Kinds(nDim) == IF nDim = 2 THEN {EL_TRIA, EL_QUAD} ELSE {EL_TETRA}

ElementTable(nDim, kind) ==
  IF nDim = 1 THEN CLINE
  ELSE IF nDim = 2 THEN (IF kind = EL_QUAD THEN CQUAD4 ELSE CTRIA1)
  ELSE CTETRA1

(* ------------------------------------------------------------------ *)
(* CElement: one element handler                                       *)
(*   RefCoord[node][dim], J_X[gauss], GradNi_X[gauss][node][dim],      *)
(*   DHiDHj[nodeA][nodeB][dim][dim], HiHj[nodeA][nodeB]                *)
(* ------------------------------------------------------------------ *)

ZeroBlock(nDim) == [iDim \in 0..(nDim - 1) |-> [jDim \in 0..(nDim - 1) |-> Zero]]

Add_DHiDHj(el, val, nodeA, nodeB, nDim) ==
  [el EXCEPT !.DHiDHj[nodeA][nodeB] =
     [iDim \in 0..(nDim - 1) |-> [jDim \in 0..(nDim - 1) |->
        Add(@[iDim][jDim], val[iDim][jDim])]]]

Add_DHiDHj_T(el, val, nodeA, nodeB, nDim) ==
  [el EXCEPT !.DHiDHj[nodeA][nodeB] =
     [iDim \in 0..(nDim - 1) |-> [jDim \in 0..(nDim - 1) |->
        Add(@[iDim][jDim], val[jDim][iDim])]]]

Add_HiHj(el, val, nodeA, nodeB) ==
  [el EXCEPT !.HiHj[nodeA][nodeB] = Add(@, val)]

(* A buffer that was not allocated. *)
NULL == <<>>

ZeroTable(nRow, nCol) == [i \in 0..(nRow - 1) |-> [j \in 0..(nCol - 1) |-> Zero]]

(* The part of clearElement that does not depend on its flag: the body-   *)
(* force buffer FDL_a is zeroed if it was allocated.                      *)
clearElement_BodyOnly(el, tab, nDim, gradient_smoothing) ==
  [el EXCEPT !.FDL_a = IF @ # NULL THEN ZeroTable(tab.nNodes, nDim) ELSE @]

(* A clearing step that leaves the smoothing accumulators as they are. *)
clearElement_KeepAccumulators(el, tab, nDim, gradient_smoothing) ==
  clearElement_BodyOnly(el, tab, nDim, FALSE)

(* clearElement(gradient_smoothing): every optional buffer is zeroed only   *)
(* if it is allocated, the smoothing accumulators only when the flag is set. *)
clearElement(el, tab, nDim, gradient_smoothing) ==
  LET body == clearElement_BodyOnly(el, tab, nDim, gradient_smoothing)
  IN  IF gradient_smoothing
      THEN [body EXCEPT
              !.HiHj = IF @ # NULL THEN ZeroTable(tab.nNodes, tab.nNodes) ELSE @,
              !.DHiDHj = IF @ # NULL
                         THEN [i \in 0..(tab.nNodes - 1) |->
                                 [j \in 0..(tab.nNodes - 1) |-> ZeroBlock(nDim)]]
                         ELSE @]
      ELSE body

(* ComputeGrad_2D(REFERENCE): per Gauss point the Jacobian (dX/dXi       *)
(* transposed), its adjugate and determinant, the stored J_X taken from  *)
(* the edge vectors of nodes 0, 1, 2, and the physical gradients.        *)
Jacobian2D(el, tab, iGauss) ==
  [iDim \in 0..1 |-> [jDim \in 0..1 |->
     SumR([iNode \in 0..(tab.nNodes - 1) |->
             Mul(el.RefCoord[iNode][jDim], tab.dNiXj[iGauss][iNode][iDim])],
          tab.nNodes)]]

Adjoint2D(Jac) ==
  [iDim \in 0..1 |-> [jDim \in 0..1 |->
     IF iDim = 0 /\ jDim = 0 THEN Jac[1][1]
     ELSE IF iDim = 0 /\ jDim = 1 THEN Sub(Zero, Jac[0][1])
     ELSE IF iDim = 1 /\ jDim = 0 THEN Sub(Zero, Jac[1][0])
     ELSE Jac[0][0]]]

DetJac2D(ad) == Sub(Mul(ad[0][0], ad[1][1]), Mul(ad[0][1], ad[1][0]))

TrafoJacobi(Coord) ==
  AbsR(Sub(Mul(Sub(Coord[1][0], Coord[0][0]), Sub(Coord[2][1], Coord[0][1])),
           Mul(Sub(Coord[2][0], Coord[0][0]), Sub(Coord[1][1], Coord[0][1]))))

ComputeGrad_2D(el, tab) ==
  LET Gauss == 0..(tab.nGaussPoints - 1)
      ad(iGauss) == Adjoint2D(Jacobian2D(el, tab, iGauss))
      inv(iGauss) ==
        LET a == ad(iGauss)
            detJac == DetJac2D(a)
        IN  [iDim \in 0..1 |-> [jDim \in 0..1 |-> Div(a[iDim][jDim], detJac)]]
  IN  [el EXCEPT
         !.J_X = [iGauss \in Gauss |-> TrafoJacobi(el.RefCoord)],
         !.GradNi_X = [iGauss \in Gauss |->
            LET Jinv == inv(iGauss)
            IN  [iNode \in 0..(tab.nNodes - 1) |-> [iDim \in 0..1 |->
                   SumR([jDim \in 0..1 |->
                           Mul(Jinv[iDim][jDim], tab.dNiXj[iGauss][iNode][jDim])], 2)]]]]

(* ComputeGrad_3D(REFERENCE): 3x3 adjugate, J_X is the determinant itself. *)
Jacobian3D(el, tab, iGauss) ==
  [iDim \in 0..2 |-> [jDim \in 0..2 |->
     SumR([iNode \in 0..(tab.nNodes - 1) |->
             Mul(el.RefCoord[iNode][jDim], tab.dNiXj[iGauss][iNode][iDim])],
          tab.nNodes)]]

Minor(J, a, b, c, d, e, f, g, h) ==
  Sub(Mul(J[a][b], J[c][d]), Mul(J[e][f], J[g][h]))

Adjoint3D(J) ==
  <<<<Minor(J, 1,1,2,2, 1,2,2,1), Minor(J, 0,2,2,1, 0,1,2,2), Minor(J, 0,1,1,2, 0,2,1,1)>>,
    <<Minor(J, 1,2,2,0, 1,0,2,2), Minor(J, 0,0,2,2, 0,2,2,0), Minor(J, 0,2,1,0, 0,0,1,2)>>,
    <<Minor(J, 1,0,2,1, 1,1,2,0), Minor(J, 0,1,2,0, 0,0,2,1), Minor(J, 0,0,1,1, 0,1,1,0)>>>>

(* ad above is a tuple, indexed from 1; adAt reads it with the source's 0-based indices. *)
adAt(ad, iDim, jDim) == ad[iDim + 1][jDim + 1]

DetJac3D(J, ad) ==
  Add(Add(Mul(J[0][0], adAt(ad, 0, 0)), Mul(J[0][1], adAt(ad, 1, 0))),
      Mul(J[0][2], adAt(ad, 2, 0)))

ComputeGrad_3D(el, tab) ==
  LET Gauss == 0..(tab.nGaussPoints - 1)
      det(iGauss) ==
        LET J == Jacobian3D(el, tab, iGauss) IN DetJac3D(J, Adjoint3D(J))
      inv(iGauss) ==
        LET J == Jacobian3D(el, tab, iGauss)
            a == Adjoint3D(J)
            detJac == DetJac3D(J, a)
        IN  [iDim \in 0..2 |-> [jDim \in 0..2 |-> Div(adAt(a, iDim, jDim), detJac)]]
  IN  [el EXCEPT
         !.J_X = [iGauss \in Gauss |-> det(iGauss)],
         !.GradNi_X = [iGauss \in Gauss |->
            LET Jinv == inv(iGauss)
            IN  [iNode \in 0..(tab.nNodes - 1) |-> [iDim \in 0..2 |->
                   SumR([jDim \in 0..2 |->
                           Mul(Jinv[iDim][jDim], tab.dNiXj[iGauss][iNode][jDim])], 3)]]]]

(* ComputeGrad_1D(REFERENCE): the Jacobian is the signed length. *)
ComputeGrad_1D(el, tab) ==
  LET Gauss == 0..(tab.nGaussPoints - 1)
      Jac == Sub(el.RefCoord[1][0], el.RefCoord[0][0])
  IN  [el EXCEPT
         !.J_X = [iGauss \in Gauss |-> Jac],
         !.GradNi_X = [iGauss \in Gauss |->
            [iNode \in 0..(tab.nNodes - 1) |-> [iDim \in {0} |->
               Div(tab.dNiXj[iGauss][iNode][0], Jac)]]]]

(* ComputeGrad_1D(Coord): a line in the plane, gradient along the line. *)
ComputeGrad_1D_Coord(el, tab, Coord) ==
  LET Gauss == 0..(tab.nGaussPoints - 1)
      Jac == [iDim \in 0..1 |-> Sub(Coord[1][iDim], Coord[0][iDim])]
      JTJ == Add(Mul(Jac[0], Jac[0]), Mul(Jac[1], Jac[1]))
  IN  [el EXCEPT
         !.J_X = [iGauss \in Gauss |-> Sqrt(JTJ)],
         !.GradNi_X = [iGauss \in Gauss |->
            [iNode \in 0..(tab.nNodes - 1) |-> [iDim \in 0..1 |->
               Div(Mul(Jac[iDim], tab.dNiXj[iGauss][iNode][0]), JTJ)]]]]

(* ComputeGrad_2D(Coord): a surface element in space; the Jacobian is taken *)
(* from the edges of nodes 0, 1, 2 and inverted through J^T J.              *)
ComputeGrad_2D_Coord(el, tab, Coord) ==
  LET Gauss == 0..(tab.nGaussPoints - 1)
      Jac == [iDim \in 0..2 |-> [jVertex \in 0..1 |->
                Sub(Coord[jVertex + 1][iDim], Coord[0][iDim])]]
      JTJ == [iDim \in 0..1 |-> [jDim \in 0..1 |->
                SumR([kDim \in 0..2 |-> Mul(Jac[kDim][iDim], Jac[kDim][jDim])], 3)]]
      detJacobian == Sub(Mul(JTJ[0][0], JTJ[1][1]), Mul(JTJ[0][1], JTJ[1][0]))
      JTJinv == [iDim \in 0..1 |-> [jDim \in 0..1 |->
                   IF iDim = jDim THEN Div(JTJ[1 - iDim][1 - jDim], detJacobian)
                   ELSE Div(Sub(Zero, JTJ[iDim][jDim]), detJacobian)]]
      Jdagger == [iDim \in 0..1 |-> [jDim \in 0..2 |->
                    SumR([kDim \in 0..1 |-> Mul(JTJinv[iDim][kDim], Jac[jDim][kDim])], 2)]]
  IN  [el EXCEPT
         !.J_X = [iGauss \in Gauss |-> Sqrt(detJacobian)],
         !.GradNi_X = [iGauss \in Gauss |->
            [iShape \in 0..(tab.nNodes - 1) |-> [iDim \in 0..2 |->
               SumR([jDim \in 0..1 |->
                       Mul(Jdagger[jDim][iDim], tab.dNiXj[iGauss][iShape][jDim])], 2)]]]]

(* A gradient computation that stores the shape values in place of the *)
(* transformed shape derivatives.                                      *)
ComputeGrad_Linear_ShapeValues(el, tab, nDim) ==
  [el EXCEPT !.GradNi_X = [iGauss \in 0..(tab.nGaussPoints - 1) |->
     [iNode \in 0..(tab.nNodes - 1) |-> [iDim \in 0..(nDim - 1) |-> tab.Ni[iGauss][iNode]]]]]

ComputeGrad_Linear(el, tab, nDim) ==
  IF nDim = 1 THEN ComputeGrad_1D(el, tab)
  ELSE IF nDim = 2 THEN ComputeGrad_2D(el, tab) ELSE ComputeGrad_3D(el, tab)

ComputeGrad_Linear_Coord(el, tab, nDim, Coord) ==
  IF nDim = 1 THEN ComputeGrad_1D_Coord(el, tab, Coord)
  ELSE ComputeGrad_2D_Coord(el, tab, Coord)

(* ------------------------------------------------------------------ *)
(* CGradSmoothing::Compute_Tangent_Matrix                              *)
(* ------------------------------------------------------------------ *)

(* The block val_DHiDHj written for one pair at one Gauss point. *)
val_DHiDHj(Weight, Jac_X, epsilon, GradNiXGradNj, nDim) ==
  [iDim \in 0..(nDim - 1) |-> [jDim \in 0..(nDim - 1) |->
     IF iDim = jDim
     THEN Mul(Mul(Mul(Mul(Weight, Jac_X), epsilon), epsilon), GradNiXGradNj)
     ELSE Zero]]

(* What the constructor allocates for the scratch table: 8 rows of nDim entries. *)
GradNi_Ref_Mat_Rows == 8

GradNi_Ref_Mat_Cols(nDim) == nDim

(* The index pairs [iShape][iDim] the copy loop and the dot product use. *)
GradNi_Ref_Mat_Indices(nNode, nDimGlobal) ==
  (0..(nNode - 1)) \X (0..(nDimGlobal - 1))

(* Where an entry past the end of a row of the scratch table lands when   *)
(* the access does not stop the process: in unused space behind the row,  *)
(* or, with the rows packed one behind the other, in the next row.        *)
RowSlack == "Slack"
RowsPacked == "Packed"
HeapLayouts == {RowSlack, RowsPacked}

(* The scratch table as read after the copy loop at one Gauss point: rows *)
(* 0 .. nNode-1, entries 0 .. nDimGlobal-1 of each row.  The copy loop    *)
(* walks the rows in order, so with packed rows the entry written past    *)
(* the end of a row is overwritten by entry 0 of the next row.            *)
GradNi_Ref_Mat(el, iGauss, nNode, nDim, nDimGlobal, heap) ==
  [iShape \in 0..(nNode - 1) |-> [iDim \in 0..(nDimGlobal - 1) |->
     IF iDim >= GradNi_Ref_Mat_Cols(nDim) /\ heap = RowsPacked /\ iShape + 1 < nNode
     THEN el.GradNi_X[iGauss][iShape + 1][iDim - GradNi_Ref_Mat_Cols(nDim)]
     ELSE el.GradNi_X[iGauss][iShape][iDim]]]

(* A pass that stores the pair (iShape, jShape) and not its mirror. *)
StiffnessPair_NoMirror(st, tab, nDim, nDimGlobal, epsilon, iGauss, iShape, jShape) ==
  LET dot == Add(st.GradNiXGradNj,
                 SumR([iDim \in 0..(nDimGlobal - 1) |->
                         Mul(st.el.GradNi_X[iGauss][iShape][iDim],
                             st.el.GradNi_X[iGauss][jShape][iDim])],
                      nDimGlobal))
      val == val_DHiDHj(tab.GaussWeight[iGauss], st.el.J_X[iGauss], epsilon, dot, nDim)
  IN  [st EXCEPT !.el = Add_DHiDHj(st.el, val, iShape, jShape, nDim), !.GradNiXGradNj = Zero]

(* One pass of the body of the jShape loop: st = [el, GradNiXGradNj, heap]. *)
StiffnessPair(st, tab, nDim, nDimGlobal, epsilon, iGauss, iShape, jShape) ==
  LET Weight == tab.GaussWeight[iGauss]
      Jac_X == st.el.J_X[iGauss]
      Mat == GradNi_Ref_Mat(st.el, iGauss, tab.nNodes, nDim, nDimGlobal, st.heap)
      dot == Add(st.GradNiXGradNj,
                 SumR([iDim \in 0..(nDimGlobal - 1) |->
                         Mul(Mat[iShape][iDim], Mat[jShape][iDim])],
                      nDimGlobal))
      val == val_DHiDHj(Weight, Jac_X, epsilon, dot, nDim)
      el1 == Add_DHiDHj(st.el, val, iShape, jShape, nDim)
      el2 == IF iShape # jShape THEN Add_DHiDHj_T(el1, val, jShape, iShape, nDim) ELSE el1
  IN  [st EXCEPT !.el = el2, !.GradNiXGradNj = Zero]

(* The stiffness loops, nested as in the source: iGauss, iShape and        *)
(* jShape >= iShape.  Each pass is evaluated before the next one starts    *)
(* (the one-element set binds its result), as the loop runs.               *)
RECURSIVE StiffnessLoop_jShape(_, _, _, _, _, _, _, _)
StiffnessLoop_jShape(st, tab, nDim, nDimGlobal, epsilon, iGauss, iShape, jShape) ==
  IF jShape = tab.nNodes THEN st
  ELSE CHOOSE r \in
         {StiffnessLoop_jShape(s, tab, nDim, nDimGlobal, epsilon, iGauss, iShape, jShape + 1) :
            s \in {StiffnessPair(st, tab, nDim, nDimGlobal, epsilon, iGauss, iShape, jShape)}} : TRUE

RECURSIVE StiffnessLoop_iShape(_, _, _, _, _, _, _)
StiffnessLoop_iShape(st, tab, nDim, nDimGlobal, epsilon, iGauss, iShape) ==
  IF iShape = tab.nNodes THEN st
  ELSE CHOOSE r \in
         {StiffnessLoop_iShape(s, tab, nDim, nDimGlobal, epsilon, iGauss, iShape + 1) :
            s \in {StiffnessLoop_jShape(st, tab, nDim, nDimGlobal, epsilon,
                                        iGauss, iShape, iShape)}} : TRUE

RECURSIVE StiffnessLoop(_, _, _, _, _, _)
StiffnessLoop(st, tab, nDim, nDimGlobal, epsilon, iGauss) ==
  IF iGauss = tab.nGaussPoints THEN st
  ELSE CHOOSE r \in
         {StiffnessLoop(s, tab, nDim, nDimGlobal, epsilon, iGauss + 1) :
            s \in {StiffnessLoop_iShape(st, tab, nDim, nDimGlobal, epsilon, iGauss, 0)}} : TRUE

(* A mass pass that walks jShape >= iShape only, as the stiffness loops do, *)
(* and stores no mirror.                                                   *)
MassPair_UpperOnly(el, tab, zeta, iGauss, iShape, jShape) ==
  IF jShape < iShape THEN el
  ELSE Add_HiHj(el, Mul(Mul(Mul(Mul(tab.GaussWeight[iGauss], el.J_X[iGauss]), zeta),
                            tab.Ni[iGauss][iShape]), tab.Ni[iGauss][jShape]),
                iShape, jShape)

(* One pass of the mass loops at Gauss point iGauss for the ordered pair;  *)
(* Add_HiHj leaves J_X as the gradient computation stored it.              *)
MassPair(el, tab, zeta, iGauss, iShape, jShape) ==
  LET Ni_Vec == tab.Ni[iGauss]
      val_HiHj == Mul(Mul(Mul(Mul(tab.GaussWeight[iGauss], el.J_X[iGauss]), zeta),
                          Ni_Vec[iShape]), Ni_Vec[jShape])
  IN  Add_HiHj(el, val_HiHj, iShape, jShape)

(* The mass loops: every ordered pair at every Gauss point. *)
RECURSIVE MassLoop_jShape(_, _, _, _, _, _)
MassLoop_jShape(el, tab, zeta, iGauss, iShape, jShape) ==
  IF jShape = tab.nNodes THEN el
  ELSE CHOOSE r \in
         {MassLoop_jShape(e, tab, zeta, iGauss, iShape, jShape + 1) :
            e \in {MassPair(el, tab, zeta, iGauss, iShape, jShape)}} : TRUE

RECURSIVE MassLoop_iShape(_, _, _, _, _)
MassLoop_iShape(el, tab, zeta, iGauss, iShape) ==
  IF iShape = tab.nNodes THEN el
  ELSE CHOOSE r \in
         {MassLoop_iShape(e, tab, zeta, iGauss, iShape + 1) :
            e \in {MassLoop_jShape(el, tab, zeta, iGauss, iShape, 0)}} : TRUE

RECURSIVE MassLoop(_, _, _, _)
MassLoop(el, tab, zeta, iGauss) ==
  IF iGauss = tab.nGaussPoints THEN el
  ELSE CHOOSE r \in
         {MassLoop(e, tab, zeta, iGauss + 1) :
            e \in {MassLoop_iShape(el, tab, zeta, iGauss, 0)}} : TRUE

(* The two loop nests on an element whose gradients have been computed. *)
TangentLoops(graded, tab, nDim, nDimGlobal, epsilon, zeta, heap) ==
  MassLoop(StiffnessLoop([el |-> graded, GradNiXGradNj |-> Zero, heap |-> heap],
                         tab, nDim, nDimGlobal, epsilon, 0).el,
           tab, zeta, 0)

(* Coord is the coordinate table the curved-surface variant reads; on a   *)
(* flat element it is not looked at.  The element is cleared and its      *)
(* gradients are computed before the loops start.                         *)
Compute_Tangent_Matrix(el, tab, nDim, epsilon, zeta, SmoothOnSurface, Coord, heap) ==
  LET nDimGlobal == IF SmoothOnSurface THEN nDim + 1 ELSE nDim
  IN  CHOOSE r \in
        {TangentLoops(graded, t, nDim, nDimGlobal, epsilon, zeta, heap) :
           t \in {tab},
           graded \in {IF SmoothOnSurface
                       THEN ComputeGrad_Linear_Coord(clearElement(el, tab, nDim, TRUE),
                                                     tab, nDim, Coord)
                       ELSE ComputeGrad_Linear(clearElement(el, tab, nDim, TRUE),
                                               tab, nDim)}} : TRUE

(* ------------------------------------------------------------------ *)
(* Geometry, configuration and the cases explored                      *)
(* ------------------------------------------------------------------ *)

YES == "YES"
NO == "NO"

ZB(s) == [i \in 0..(Len(s) - 1) |-> s[i + 1]]

(* pts: node coordinates; elems: <<tag, nodes>>; markers: the nodes of each *)
(* boundary marker; halo: the nodes not owned by this rank.                 *)
MkGeometry(nDim, pts, elems, markers, halo) ==
  [nDim |-> nDim,
   nPoint |-> Len(pts),
   Coord |-> [p \in 0..(Len(pts) - 1) |-> ZB(pts[p + 1])],
   nElem |-> Len(elems),
   elem |-> [e \in 0..(Len(elems) - 1) |->
               [VTK_Type |-> elems[e + 1][1], Node |-> ZB(elems[e + 1][2])]],
   nMarker |-> Len(markers),
   nVertex |-> [m \in 0..(Len(markers) - 1) |-> Len(markers[m + 1])],
   vertex |-> [m \in 0..(Len(markers) - 1) |-> ZB(markers[m + 1])],
   Domain |-> [p \in 0..(Len(pts) - 1) |-> p \notin halo]]

UnitTriaPts == <<<<0, 0>>, <<1, 0>>, <<0, 1>>>>
TwoTriaPts == <<<<0, 0>>, <<1, 0>>, <<0, 1>>, <<2, 2>>>>

G_Tria == MkGeometry(2, UnitTriaPts, <<<<TRIANGLE, <<0, 1, 2>>>>>>, <<<<0, 1>>, <<2>>>>, {})
G_Halo == MkGeometry(2, TwoTriaPts,
                     <<<<TRIANGLE, <<0, 1, 2>>>>, <<TRIANGLE, <<1, 3, 2>>>>>>,
                     <<<<1>>, <<3>>>>, {3})
G_HaloFirst == MkGeometry(2, UnitTriaPts, <<<<TRIANGLE, <<0, 1, 2>>>>>>, <<<<0>>>>, {0})
G_UnsupFirst == MkGeometry(2, UnitTriaPts,
                           <<<<LINE, <<0, 1>>>>, <<TRIANGLE, <<0, 1, 2>>>>>>,
                           <<<<0>>>>, {})
G_Degenerate == MkGeometry(2, <<<<0, 0>>, <<1, 0>>, <<2, 0>>>>,
                           <<<<TRIANGLE, <<0, 1, 2>>>>>>, <<<<0>>>>, {})
G_Inverted == MkGeometry(2, UnitTriaPts, <<<<TRIANGLE, <<0, 2, 1>>>>>>, <<<<0>>>>, {})
G_Tetra == MkGeometry(3, <<<<0, 0, 0>>, <<1, 0, 0>>, <<0, 1, 0>>, <<0, 0, 1>>>>,
                      <<<<TETRAHEDRON, <<1, 2, 0, 3>>>>>>, <<<<0, 3>>>>, {})

Geometries ==
  {G_Tria, G_Halo, G_HaloFirst, G_UnsupFirst, G_Degenerate, G_Inverted, G_Tetra}

(* <<epsilon, zeta>> *)
SmoothingParams == {<<1, 1>>, <<0, 1>>, <<2, 0>>}

(* The coordinate table of the numerics object when none has been handed to it. *)
NoCoord == <<>>

(* The solver smooths in the volume: the curved-surface flag is off. *)
Configs(g) ==
  {[SmoothingParam |-> R(ez[1]), SmoothingParamSecond |-> R(ez[2]),
    SmoothOnSurface |-> FALSE, Marker_All_SobolevBC |-> bc] :
     ez \in SmoothingParams, bc \in [0..(g.nMarker - 1) -> {YES, NO}]}

RampField(g) == [p \in 0..(g.nPoint - 1) |-> [d \in 0..(g.nDim - 1) |-> R(p * g.nDim + d + 1)]]

ZeroField(g) == [p \in 0..(g.nPoint - 1) |-> [d \in 0..(g.nDim - 1) |-> Zero]]

(* The meshes on which the all-zero input is explored as a first input. *)
ZeroInputMeshes == {G_Tria}

(* The first input; later invocations smooth what the solver returned. *)
SensInputs(g) ==
  {RampField(g)} \cup (IF g \in ZeroInputMeshes THEN {ZeroField(g)} ELSE {})

(* What an uninitialised su2double buffer may hold. *)
Garbage == {0, 1}

(* ------------------------------------------------------------------ *)
(* CGradientSmoothingSolver: state                                     *)
(* ------------------------------------------------------------------ *)

VARIABLES
  geometry,           \* the mesh handed to the solver
  config,             \* epsilon, zeta and the kind of every boundary marker
  Sensitivity,        \* solver->node[iPoint]->Sensitivity[iDim]: input, then output
  element_container,  \* element_container[GRAD_TERM][kind]: the shared handlers
  Jacobian,           \* global block matrix, Jacobian[i][j] is an nDim x nDim block
  LinSysRes,          \* right-hand side, point-major, dimension-minor
  LinSysSol,          \* solution vector, same layout
  Residual,           \* the solver's scratch block Residual[nDim]
  Solution,           \* the solver's scratch block Solution[nDim]
  IterLinSol,         \* iteration count recorded by SetIterLinSolver
  pc,                 \* the phase of ApplyGradientSmoothing that runs next
  iMarker,            \* loop counter of Impose_BC
  iDim_Residual,      \* the value the unassigned iDim of Compute_Residual holds
  nInvocation,        \* completed invocations of ApplyGradientSmoothing
  firstAssembly,      \* history: input and assembled system of the first invocation
  elem,               \* a handler driven on its own: its family, handler and Coord table
  elemPc              \* what is done next with that handler

vars == <<geometry, config, Sensitivity, element_container, Jacobian, LinSysRes,
          LinSysSol, Residual, Solution, IterLinSol, pc, iMarker, iDim_Residual, nInvocation,
          firstAssembly, elem, elemPc>>

MaxInvocations == 2

MaxLinIter == 1

nDim == geometry.nDim
nPoint == geometry.nPoint
nVar == geometry.nDim

(* The succession with ApplyBoundaryConditions left out. *)
NextPhase_SkipBC(p) ==
  CASE p = "Reset" -> "AssembleStiffness"
    [] p = "AssembleStiffness" -> "AssembleResidual"
    [] p = "AssembleResidual" -> "Solve"
    [] p = "ApplyBoundaryConditions" -> "Solve"
    [] p = "Solve" -> "ScatterResult"
    [] p = "ScatterResult" -> "Reset"

(* The body of ApplyGradientSmoothing: the phase that follows phase p. *)
NextPhase(p) ==
  CASE p = "Reset" -> "AssembleStiffness"
    [] p = "AssembleStiffness" -> "AssembleResidual"
    [] p = "AssembleResidual" -> "ApplyBoundaryConditions"
    [] p = "ApplyBoundaryConditions" -> "Solve"
    [] p = "Solve" -> "ScatterResult"
    [] p = "ScatterResult" -> "Reset"

(* ------------------------------------------------------------------ *)
(* Linear-system containers (CSysVector, CSysMatrix)                   *)
(* ------------------------------------------------------------------ *)

ZeroVector(n) == [k \in 0..(n - 1) |-> Zero]

ZeroMatrix(n, d) == [i \in 0..(n - 1) |-> [j \in 0..(n - 1) |-> ZeroBlock(d)]]

mZeros_Aux(d) == ZeroBlock(d)

mId_Aux(d) == [iDim \in 0..(d - 1) |-> [jDim \in 0..(d - 1) |-> IF iDim = jDim THEN One ELSE Zero]]

(* CSysVector::SetBlock(iPoint, val): entries iPoint*nVar .. iPoint*nVar+nVar-1. *)
SetBlockVec(vec, iPoint, val, nv) ==
  [k \in DOMAIN vec |-> IF k \div nv = iPoint THEN val[k % nv] ELSE vec[k]]

SetBlock(J, i, j, blk) == [J EXCEPT ![i][j] = blk]

AddBlock(J, i, j, blk) ==
  [J EXCEPT ![i][j] = [iVar \in DOMAIN blk |-> [jVar \in DOMAIN blk |->
                          Add(@[iVar][jVar], blk[iVar][jVar])]]]

(* ------------------------------------------------------------------ *)
(* Compute_StiffMatrix                                                 *)
(* ------------------------------------------------------------------ *)

(* The six tag tests: an unlisted tag leaves nNodes and EL_KIND as they were. *)
Dispatch(VTK_Type, nNodes, EL_KIND) ==
  CASE VTK_Type = TRIANGLE -> [nNodes |-> 3, EL_KIND |-> EL_TRIA]
    [] VTK_Type = QUADRILATERAL -> [nNodes |-> 4, EL_KIND |-> EL_QUAD]
    [] VTK_Type = TETRAHEDRON -> [nNodes |-> 4, EL_KIND |-> EL_TETRA]
    [] VTK_Type = PYRAMID -> [nNodes |-> 5, EL_KIND |-> EL_PYRAM]
    [] VTK_Type = PRISM -> [nNodes |-> 6, EL_KIND |-> EL_PRISM]
    [] VTK_Type = HEXAHEDRON -> [nNodes |-> 8, EL_KIND |-> EL_HEXA]
    [] OTHER -> [nNodes |-> nNodes, EL_KIND |-> EL_KIND]

Get_ValCoord(geo, iNode, iDim) == R(geo.Coord[iNode][iDim])

(* geometry->elem[iElem]->GetNode(k) for k = 0 .. n-1 written over indexNode. *)
FillIndexNode(indexNode, geo, iElem, n) ==
  [k \in DOMAIN indexNode |-> IF k < n THEN geo.elem[iElem].Node[k] ELSE indexNode[k]]

(* SetRef_Coord(Get_ValCoord(indexNode[iNode], iDim), iNode, iDim) for iNode < n. *)
SetRef_Coord(el, geo, indexNode, n) ==
  [el EXCEPT !.RefCoord =
     [iNode \in DOMAIN @ |-> [iDim \in 0..(geo.nDim - 1) |->
        IF iNode < n THEN Get_ValCoord(geo, indexNode[iNode], iDim) ELSE @[iNode][iDim]]]]

(* element_container[Gradient_Map][EL_KIND]->GetDHiHj(iNode, jNode): the mass scalar. *)
GetDHiHj(el, iNode, jNode) == el.HiHj[iNode][jNode]

(* Jacobian_ij: the stiffness block with the mass scalar taken off its diagonal. *)
Jacobian_ij(el, iNode, jNode, nv) ==
  LET DHiDHj == el.DHiDHj[iNode][jNode]
      HiHj == GetDHiHj(el, iNode, jNode)
  IN  [iVar \in 0..(nv - 1) |-> [jVar \in 0..(nv - 1) |->
         IF iVar = jVar THEN Sub(DHiDHj[iVar][jVar], HiHj) ELSE DHiDHj[iVar][jVar]]]

(* A scatter that stores each block over what is there. *)
RECURSIVE ScatterLoop_Overwrite(_, _, _, _, _, _)
ScatterLoop_Overwrite(J, el, indexNode, NelNodes, nv, k) ==
  IF k = 0 THEN J
  ELSE LET iNode == (k - 1) \div NelNodes
           jNode == (k - 1) % NelNodes
       IN  SetBlock(ScatterLoop_Overwrite(J, el, indexNode, NelNodes, nv, k - 1),
                    indexNode[iNode], indexNode[jNode], Jacobian_ij(el, iNode, jNode, nv))

(* The iNode / jNode loops over the handler's nodes, k passes. *)
RECURSIVE ScatterLoop(_, _, _, _, _, _)
ScatterLoop(J, el, indexNode, NelNodes, nv, k) ==
  IF k = 0 THEN J
  ELSE LET iNode == (k - 1) \div NelNodes
           jNode == (k - 1) % NelNodes
       IN  AddBlock(ScatterLoop(J, el, indexNode, NelNodes, nv, k - 1),
                    indexNode[iNode], indexNode[jNode], Jacobian_ij(el, iNode, jNode, nv))

(* One pass of the element loop; st holds the locals and what they write. *)
StiffMatrixElem(st, geo, cfg, iElem) ==
  LET d == Dispatch(geo.elem[iElem].VTK_Type, st.nNodes, st.EL_KIND)
      tab == ElementTable(geo.nDim, d.EL_KIND)
      indexNode == FillIndexNode(st.indexNode, geo, iElem, d.nNodes)
      el == Compute_Tangent_Matrix(
              SetRef_Coord(st.element_container[d.EL_KIND], geo, indexNode, d.nNodes),
              tab, geo.nDim, cfg.SmoothingParam, cfg.SmoothingParamSecond,
              cfg.SmoothOnSurface, NoCoord, RowSlack)
      NelNodes == tab.nNodes
  IN  [nNodes |-> d.nNodes, EL_KIND |-> d.EL_KIND, indexNode |-> indexNode,
       element_container |-> [st.element_container EXCEPT ![d.EL_KIND] = el],
       Jacobian |-> ScatterLoop(st.Jacobian, el, indexNode, NelNodes, geo.nDim,
                                NelNodes * NelNodes)]

RECURSIVE StiffMatrixLoop(_, _, _, _)
StiffMatrixLoop(st, geo, cfg, k) ==
  IF k = 0 THEN st
  ELSE StiffMatrixElem(StiffMatrixLoop(st, geo, cfg, k - 1), geo, cfg, k - 1)

indexNode0 == [k \in 0..7 |-> 0]

(* ------------------------------------------------------------------ *)
(* Compute_Residual                                                    *)
(*                                                                     *)
(* The function is read as written, with the undeclared names bound as *)
(* in Compute_StiffMatrix (iElem, nNodes = 0, EL_KIND = 0, indexNode = *)
(* {0,...}), `element` bound to element_container[GRAD_TERM][EL_KIND], *)
(* and the right-hand side of the assignment to Residual[iDim] taken   *)
(* as one product.  iDim is never assigned: it holds one indeterminate *)
(* dimension for the whole call.  The node index passed to SetBlock is *)
(* the outer iNode, which the fill loop has left at nNodes.            *)
(* ------------------------------------------------------------------ *)

(* for (unsigned short iNode = 0; iNode < nNode; iNode++) Residual[iDim] = ... *)
RECURSIVE ResidualNodeLoop(_, _, _, _, _, _, _, _)
ResidualNodeLoop(Res, Weight, Jac_X, Ni, sens, indexNode, iDim, k) ==
  IF k = 0 THEN Res
  ELSE LET iNode == k - 1
           prev == ResidualNodeLoop(Res, Weight, Jac_X, Ni, sens, indexNode, iDim, k - 1)
       IN  [prev EXCEPT ![iDim] =
              Mul(Mul(Mul(Weight, Jac_X), Ni[iNode]), sens[indexNode[iNode]][iDim])]

(* One pass of the iGauss loop for element iElem. *)
ResidualGauss(st, geo, sens, iDim, iElem, iGauss, nNode) ==
  LET indexNode == FillIndexNode(st.indexNode, geo, iElem, st.nNodes)
      tab == ElementTable(geo.nDim, st.EL_KIND)
      element == st.element_container[st.EL_KIND]
      Weight == tab.GaussWeight[iGauss]
      Jac_X == element.J_X[iGauss]
      Res == ResidualNodeLoop(st.Residual, Weight, Jac_X, tab.Ni[iGauss], sens,
                              indexNode, iDim, nNode)
      iNode == st.nNodes
  IN  [st EXCEPT !.indexNode = indexNode,
                 !.Residual = Res,
                 !.LinSysRes = SetBlockVec(@, indexNode[iNode], Res, geo.nDim)]

RECURSIVE ResidualGaussLoop(_, _, _, _, _, _, _)
ResidualGaussLoop(st, geo, sens, iDim, iElem, nNode, k) ==
  IF k = 0 THEN st
  ELSE ResidualGauss(ResidualGaussLoop(st, geo, sens, iDim, iElem, nNode, k - 1),
                     geo, sens, iDim, iElem, k - 1, nNode)

ResidualElem(st, geo, sens, iDim, iElem, nNode, nGauss) ==
  LET d == Dispatch(geo.elem[iElem].VTK_Type, st.nNodes, st.EL_KIND)
  IN  ResidualGaussLoop([st EXCEPT !.nNodes = d.nNodes, !.EL_KIND = d.EL_KIND],
                        geo, sens, iDim, iElem, nNode, nGauss)

RECURSIVE ResidualLoop(_, _, _, _, _, _, _)
ResidualLoop(st, geo, sens, iDim, nNode, nGauss, k) ==
  IF k = 0 THEN st
  ELSE ResidualElem(ResidualLoop(st, geo, sens, iDim, nNode, nGauss, k - 1),
                    geo, sens, iDim, k - 1, nNode, nGauss)

(* ------------------------------------------------------------------ *)
(* Impose_BC, BC_Dirichlet, BC_Neumann                                 *)
(* ------------------------------------------------------------------ *)

(* Delete the column of iPoint: identity on the diagonal block, zero elsewhere. *)
DeleteColumn(J, iPoint, d) ==
  [iVar \in DOMAIN J |-> [jVar \in DOMAIN J |->
     IF jVar = iPoint THEN (IF iVar = iPoint THEN mId_Aux(d) ELSE mZeros_Aux(d))
     ELSE J[iVar][jVar]]]

(* A row deletion that is left out. *)
DeleteRow_Skipped(J, iPoint, d) == J

(* Delete the row of iPoint, the diagonal block excepted. *)
DeleteRow(J, iPoint, d) ==
  [iVar \in DOMAIN J |-> [jVar \in DOMAIN J |->
     IF iVar = iPoint /\ iPoint # jVar THEN mZeros_Aux(d) ELSE J[iVar][jVar]]]

(* A halo branch that treats the column as that of an owned node. *)
DeleteColumnHalo_AsOwned(J, iPoint, d) == DeleteColumn(J, iPoint, d)

(* Halo node: the whole column is zeroed, the diagonal block included. *)
DeleteColumnHalo(J, iPoint, d) ==
  [iVar \in DOMAIN J |-> [jVar \in DOMAIN J |->
     IF jVar = iPoint THEN mZeros_Aux(d) ELSE J[iVar][jVar]]]

(* Solution[..] = 0.0; Residual[..] = 0.0: entries 0,1 in 2D, 0,1,2 otherwise. *)
ZeroScratch(buf, d) ==
  [k \in DOMAIN buf |-> IF k < (IF d = 2 THEN 2 ELSE 3) THEN Zero ELSE buf[k]]

(* One pass of the vertex loop of BC_Dirichlet. *)
DirichletVertex(st, geo, iPoint) ==
  IF geo.Domain[iPoint]
  THEN LET Sol == ZeroScratch(st.Solution, geo.nDim)
           Res == ZeroScratch(st.Residual, geo.nDim)
       IN  [Solution |-> Sol, Residual |-> Res,
            LinSysRes |-> SetBlockVec(st.LinSysRes, iPoint, Res, geo.nDim),
            LinSysSol |-> SetBlockVec(st.LinSysSol, iPoint, Sol, geo.nDim),
            Jacobian |-> DeleteRow(DeleteColumn(st.Jacobian, iPoint, geo.nDim),
                                   iPoint, geo.nDim)]
  ELSE [st EXCEPT !.Jacobian = DeleteColumnHalo(@, iPoint, geo.nDim)]

RECURSIVE DirichletLoop(_, _, _, _)
DirichletLoop(st, geo, val_marker, k) ==
  IF k = 0 THEN st
  ELSE DirichletVertex(DirichletLoop(st, geo, val_marker, k - 1), geo,
                       geo.vertex[val_marker][k - 1])

(* ------------------------------------------------------------------ *)
(* Solve_Linear_System and Set_Sensitivities                           *)
(* ------------------------------------------------------------------ *)

MatVec(J, x, n, d) ==
  [k \in 0..(n * d - 1) |->
     SumR([m \in 0..(n * d - 1) |->
             Mul(J[k \div d][m \div d][k % d][m % d], x[m])], n * d)]

Solves(J, x, b, n, d) == MatVec(J, x, n, d) = b

(* What System.Solve may return: a vector and an iteration count.  It  *)
(* either meets the system within the budget, or exhausts the budget   *)
(* and returns its last iterate (possibly the initial guess).          *)
SolveCandidates(x0, n, d) ==
  {x0, ZeroVector(n * d), [k \in 0..(n * d - 1) |-> R(k + 1)]}

SolveOutcomes(J, b, x0, n, d) ==
  {[x |-> x, IterLinSol |-> it] :
     x \in {y \in SolveCandidates(x0, n, d) : Solves(J, y, b, n, d)},
     it \in 0..MaxLinIter}
  \cup
  {[x |-> x, IterLinSol |-> MaxLinIter] :
     x \in {y \in SolveCandidates(x0, n, d) : ~Solves(J, y, b, n, d)}}

(* An index that forgets the block stride. *)
total_index_NoStride(iPoint, iDim, d) == iPoint + iDim

total_index(iPoint, iDim, d) == iPoint * d + iDim

(* No handler is driven on its own while the solver runs. *)
NoElement == <<>>

(* ------------------------------------------------------------------ *)
(* Initial state: after the constructor                                *)
(* ------------------------------------------------------------------ *)

(* A handler as AllocateStructures(body_forces = false, gradient_smoothing *)
(* = true) leaves it; the buffers are not initialised: RefCoord holds      *)
(* zeros or the coordinates of a unit simplex, the accumulators zeros or   *)
(* ones.  The body-force buffer FDL_a is not allocated.                    *)
NewElement(tab, d, g) ==
  [RefCoord |-> [iNode \in 0..(tab.nNodes - 1) |-> [k \in 0..(d - 1) |->
                   IF g = 1 /\ iNode = k + 1 THEN One ELSE Zero]],
   J_X |-> [iGauss \in 0..(tab.nGaussPoints - 1) |-> Zero],
   GradNi_X |-> [iGauss \in 0..(tab.nGaussPoints - 1) |->
                   [iNode \in 0..(tab.nNodes - 1) |-> [k \in 0..(d - 1) |-> Zero]]],
   DHiDHj |-> [i \in 0..(tab.nNodes - 1) |-> [j \in 0..(tab.nNodes - 1) |->
                 [iDim \in 0..(d - 1) |-> [jDim \in 0..(d - 1) |-> R(g)]]]],
   HiHj |-> [i \in 0..(tab.nNodes - 1) |-> [j \in 0..(tab.nNodes - 1) |-> R(g)]],
   FDL_a |-> NULL]

(* The same with the body-force buffer allocated when body_forces is set. *)
AllocateStructures(tab, d, g, body_forces) ==
  [NewElement(tab, d, g) EXCEPT
     !.FDL_a = IF body_forces
               THEN [i \in 0..(tab.nNodes - 1) |-> [k \in 0..(d - 1) |-> R(g)]]
               ELSE NULL]

Init ==
  /\ geometry \in Geometries
  /\ config \in Configs(geometry)
  /\ Sensitivity \in SensInputs(geometry)
  /\ \E g \in Garbage :
       /\ element_container =
            [kind \in Kinds(geometry.nDim) |->
               NewElement(ElementTable(geometry.nDim, kind), geometry.nDim, g)]
       /\ Residual = [k \in 0..(geometry.nDim - 1) |-> R(g)]
       /\ Solution = [k \in 0..(geometry.nDim - 1) |-> R(g)]
  /\ iDim_Residual \in 0..(geometry.nDim - 1)
  /\ Jacobian = ZeroMatrix(geometry.nPoint, geometry.nDim)
  /\ LinSysRes = ZeroVector(geometry.nPoint * geometry.nDim)
  /\ LinSysSol = ZeroVector(geometry.nPoint * geometry.nDim)
  /\ IterLinSol = 0
  /\ pc = "Reset"
  /\ iMarker = 0
  /\ nInvocation = 0
  /\ firstAssembly = [Sensitivity |-> Sensitivity, Jacobian |-> Jacobian,
                      LinSysRes |-> LinSysRes]
  /\ elem = NoElement
  /\ elemPc = "Idle"

(* ------------------------------------------------------------------ *)
(* ApplyGradientSmoothing, phase by phase                              *)
(* ------------------------------------------------------------------ *)

(* LinSysSol.SetValZero(); LinSysRes.SetValZero(); Jacobian.SetValZero(); *)
Reset ==
  /\ pc = "Reset"
  /\ nInvocation < MaxInvocations
  /\ LinSysSol' = ZeroVector(nPoint * nVar)
  /\ LinSysRes' = ZeroVector(nPoint * nVar)
  /\ Jacobian' = ZeroMatrix(nPoint, nVar)
  /\ pc' = NextPhase(pc)
  /\ UNCHANGED <<geometry, config, Sensitivity, element_container, Residual, Solution,
                 IterLinSol, iMarker, iDim_Residual, nInvocation,
                 firstAssembly, elem, elemPc>>

Compute_StiffMatrix ==
  /\ pc = "AssembleStiffness"
  /\ LET out == StiffMatrixLoop(
                  [nNodes |-> 0, EL_KIND |-> 0, indexNode |-> indexNode0,
                   element_container |-> element_container, Jacobian |-> Jacobian],
                  geometry, config, geometry.nElem)
     IN  /\ element_container' = out.element_container
         /\ Jacobian' = out.Jacobian
  /\ pc' = NextPhase(pc)
  /\ UNCHANGED <<geometry, config, Sensitivity, LinSysRes, LinSysSol, Residual, Solution,
                 IterLinSol, iMarker, iDim_Residual, nInvocation,
                 firstAssembly, elem, elemPc>>

Compute_Residual ==
  /\ pc = "AssembleResidual"
  /\ LET element == element_container[0]
         tab == ElementTable(nDim, 0)
         out == ResidualLoop(
                  [nNodes |-> 0, EL_KIND |-> 0, indexNode |-> indexNode0,
                   element_container |-> element_container,
                   Residual |-> Residual, LinSysRes |-> LinSysRes],
                  geometry, Sensitivity, iDim_Residual, tab.nNodes, tab.nGaussPoints,
                  geometry.nElem)
     IN  /\ Residual' = out.Residual
         /\ LinSysRes' = out.LinSysRes
         /\ firstAssembly' = IF nInvocation = 0
                               THEN [Sensitivity |-> Sensitivity, Jacobian |-> Jacobian,
                                     LinSysRes |-> out.LinSysRes]
                               ELSE firstAssembly
  /\ pc' = NextPhase(pc)
  /\ UNCHANGED <<geometry, config, Sensitivity, element_container, Jacobian, LinSysSol,
                 Solution, IterLinSol, iMarker, iDim_Residual, nInvocation, elem, elemPc>>

(* Impose_BC, one marker per step: a marker with SobolevBC == NO is Dirichlet. *)
BC_Dirichlet ==
  /\ pc = "ApplyBoundaryConditions"
  /\ iMarker < geometry.nMarker
  /\ config.Marker_All_SobolevBC[iMarker] = NO
  /\ LET out == DirichletLoop(
                  [Solution |-> Solution, Residual |-> Residual, LinSysRes |-> LinSysRes,
                   LinSysSol |-> LinSysSol, Jacobian |-> Jacobian],
                  geometry, iMarker, geometry.nVertex[iMarker])
     IN  /\ Solution' = out.Solution
         /\ Residual' = out.Residual
         /\ LinSysRes' = out.LinSysRes
         /\ LinSysSol' = out.LinSysSol
         /\ Jacobian' = out.Jacobian
  /\ iMarker' = iMarker + 1
  /\ UNCHANGED <<geometry, config, Sensitivity, element_container, IterLinSol, pc, iDim_Residual,
                 nInvocation,
                 firstAssembly, elem, elemPc>>

(* A Neumann marker treated as BC_Dirichlet treats its own. *)
BC_Neumann_AsDirichlet ==
  /\ pc = "ApplyBoundaryConditions"
  /\ iMarker < geometry.nMarker
  /\ config.Marker_All_SobolevBC[iMarker] = YES
  /\ LET out == DirichletLoop(
                  [Solution |-> Solution, Residual |-> Residual, LinSysRes |-> LinSysRes,
                   LinSysSol |-> LinSysSol, Jacobian |-> Jacobian],
                  geometry, iMarker, geometry.nVertex[iMarker])
     IN  /\ Solution' = out.Solution
         /\ Residual' = out.Residual
         /\ LinSysRes' = out.LinSysRes
         /\ LinSysSol' = out.LinSysSol
         /\ Jacobian' = out.Jacobian
  /\ iMarker' = iMarker + 1
  /\ UNCHANGED <<geometry, config, Sensitivity, element_container, IterLinSol, pc, iDim_Residual,
                 nInvocation, firstAssembly, elem, elemPc>>

(* A marker with SobolevBC == YES is Neumann: BC_Neumann has an empty body. *)
BC_Neumann ==
  /\ pc = "ApplyBoundaryConditions"
  /\ iMarker < geometry.nMarker
  /\ config.Marker_All_SobolevBC[iMarker] = YES
  /\ iMarker' = iMarker + 1
  /\ UNCHANGED <<geometry, config, Sensitivity, element_container, Jacobian, LinSysRes,
                 LinSysSol, Residual, Solution, IterLinSol, pc, iDim_Residual, nInvocation,
                 firstAssembly, elem, elemPc>>

(* The marker loop is exhausted: Impose_BC returns. *)
Impose_BC_Return ==
  /\ pc = "ApplyBoundaryConditions"
  /\ iMarker = geometry.nMarker
  /\ iMarker' = 0
  /\ pc' = NextPhase(pc)
  /\ UNCHANGED <<geometry, config, Sensitivity, element_container, Jacobian, LinSysRes,
                 LinSysSol, Residual, Solution, IterLinSol, iDim_Residual, nInvocation,
                 firstAssembly, elem, elemPc>>

(* A solve that gives the invocation up when the system is not met. *)
Solve_Linear_System_AbortOnFailure ==
  /\ pc = "Solve"
  /\ \E out \in SolveOutcomes(Jacobian, LinSysRes, LinSysSol, nPoint, nVar) :
       /\ LinSysSol' = out.x
       /\ IterLinSol' = out.IterLinSol
       /\ IF Solves(Jacobian, out.x, LinSysRes, nPoint, nVar)
          THEN pc' = NextPhase(pc) /\ nInvocation' = nInvocation
          ELSE pc' = "Reset" /\ nInvocation' = nInvocation + 1
  /\ UNCHANGED <<geometry, config, Sensitivity, element_container, Jacobian, LinSysRes,
                 Residual, Solution, iMarker, iDim_Residual,
                 firstAssembly, elem, elemPc>>

(* IterLinSol = System.Solve(Jacobian, LinSysRes, LinSysSol, ...); SetIterLinSolver. *)
Solve_Linear_System ==
  /\ pc = "Solve"
  /\ \E out \in SolveOutcomes(Jacobian, LinSysRes, LinSysSol, nPoint, nVar) :
       /\ LinSysSol' = out.x
       /\ IterLinSol' = out.IterLinSol
  /\ pc' = NextPhase(pc)
  /\ UNCHANGED <<geometry, config, Sensitivity, element_container, Jacobian, LinSysRes,
                 Residual, Solution, iMarker, iDim_Residual, nInvocation,
                 firstAssembly, elem, elemPc>>

Set_Sensitivities ==
  /\ pc = "ScatterResult"
  /\ Sensitivity' = [iPoint \in 0..(nPoint - 1) |-> [k \in 0..(nDim - 1) |->
                       LinSysSol[total_index(iPoint, k, nDim)]]]
  /\ pc' = NextPhase(pc)
  /\ nInvocation' = nInvocation + 1
  /\ UNCHANGED <<geometry, config, element_container, Jacobian, LinSysRes, LinSysSol,
                 Residual, Solution, IterLinSol, iMarker, iDim_Residual,
                 firstAssembly, elem, elemPc>>

Next ==
  \/ Reset
  \/ Compute_StiffMatrix
  \/ Compute_Residual
  \/ BC_Dirichlet
  \/ BC_Neumann
  \/ Impose_BC_Return
  \/ Solve_Linear_System
  \/ Set_Sensitivities

Spec == Init /\ [][Next]_vars

(* ------------------------------------------------------------------ *)
(* One handler driven on its own: coordinates are set and              *)
(* Compute_Tangent_Matrix is called, element after element, for each   *)
(* element family and for both settings of the curved-surface flag.    *)
(* ------------------------------------------------------------------ *)

MaxElementPasses == 2

(* A family: the dimension of the handler, its kind and whether it is  *)
(* driven as a curved-surface element (Coord has one component more).  *)
ElementCases ==
  {[family |-> "TRIANGLE", nDim |-> 2, kind |-> EL_TRIA, SmoothOnSurface |-> FALSE],
   [family |-> "QUADRILATERAL", nDim |-> 2, kind |-> EL_QUAD, SmoothOnSurface |-> FALSE],
   [family |-> "TETRAHEDRON", nDim |-> 3, kind |-> EL_TETRA, SmoothOnSurface |-> FALSE],
   [family |-> "LINE", nDim |-> 1, kind |-> 0, SmoothOnSurface |-> FALSE],
   [family |-> "LINE", nDim |-> 1, kind |-> 0, SmoothOnSurface |-> TRUE],
   [family |-> "TRIANGLE", nDim |-> 2, kind |-> EL_TRIA, SmoothOnSurface |-> TRUE]}

(* The node coordinates handed to a handler of each case. *)
ElementShapes(c) ==
  IF c.SmoothOnSurface
  THEN IF c.nDim = 1
       THEN {<<<<0, 0>>, <<1, 0>>>>, <<<<1, 1>>, <<4, 5>>>>}
       ELSE {<<<<0, 0, 0>>, <<1, 0, 0>>, <<0, 1, 0>>>>,
             <<<<0, 0, 0>>, <<3, 4, 0>>, <<0, 0, 1>>>>}
  ELSE IF c.nDim = 1 THEN {<<<<0>>, <<2>>>>, <<<<1>>, <<4>>>>}
  ELSE IF c.nDim = 3
       THEN {<<<<1, 0, 0>>, <<0, 1, 0>>, <<0, 0, 0>>, <<0, 0, 1>>>>,
             <<<<2, 0, 0>>, <<0, 1, 0>>, <<0, 0, 0>>, <<0, 0, 3>>>>}
  ELSE IF c.kind = EL_QUAD
       THEN {<<<<0, 0>>, <<1, 0>>, <<1, 1>>, <<0, 1>>>>,
             <<<<0, 0>>, <<2, 0>>, <<1, 1>>, <<0, 1>>>>}
  ELSE {<<<<0, 0>>, <<1, 0>>, <<0, 1>>>>, <<<<1, 1>>, <<3, 1>>, <<1, 4>>>>}

(* A coordinate list as a 0-based table of su2double. *)
CoordTable(shape) ==
  [iNode \in 0..(Len(shape) - 1) |->
     [iDim \in 0..(Len(shape[iNode + 1]) - 1) |-> R(shape[iNode + 1][iDim + 1])]]

ElementConfigs(c) ==
  {[SmoothingParam |-> R(ez[1]), SmoothingParamSecond |-> R(ez[2]),
    SmoothOnSurface |-> c.SmoothOnSurface,
    Marker_All_SobolevBC |-> [m \in 0..(G_Tria.nMarker - 1) |-> YES]] :
     ez \in SmoothingParams}

solverVars ==
  <<geometry, config, Sensitivity, element_container, Jacobian, LinSysRes, LinSysSol,
    Residual, Solution, IterLinSol, pc, iMarker, iDim_Residual, nInvocation, firstAssembly>>

(* The solver is constructed on the one-triangle mesh and is not run. *)
Init_Element ==
  /\ geometry = G_Tria
  /\ \E c \in ElementCases, g \in Garbage, heap \in HeapLayouts, body_forces \in BOOLEAN :
       /\ config \in ElementConfigs(c)
       /\ elem = [case |-> c,
                  el |-> AllocateStructures(ElementTable(c.nDim, c.kind), c.nDim, g,
                                            body_forces),
                  body_forces |-> body_forces,
                  Coord |-> NoCoord,
                  heap |-> heap,
                  shapes |-> <<>>,
                  pass |-> 0]
  /\ Sensitivity = RampField(geometry)
  /\ element_container =
       [kind \in Kinds(geometry.nDim) |->
          NewElement(ElementTable(geometry.nDim, kind), geometry.nDim, 0)]
  /\ Residual = [k \in 0..(geometry.nDim - 1) |-> Zero]
  /\ Solution = [k \in 0..(geometry.nDim - 1) |-> Zero]
  /\ iDim_Residual = 0
  /\ Jacobian = ZeroMatrix(geometry.nPoint, geometry.nDim)
  /\ LinSysRes = ZeroVector(geometry.nPoint * geometry.nDim)
  /\ LinSysSol = ZeroVector(geometry.nPoint * geometry.nDim)
  /\ IterLinSol = 0
  /\ pc = "Idle"
  /\ iMarker = 0
  /\ nInvocation = 0
  /\ firstAssembly = [Sensitivity |-> Sensitivity, Jacobian |-> Jacobian,
                      LinSysRes |-> LinSysRes]
  /\ elemPc = "SetCoord"

(* The coordinates of the next element are handed over: SetRef_Coord on a *)
(* flat element, the Coord table on a curved-surface element.             *)
Element_SetCoord ==
  /\ elemPc = "SetCoord"
  /\ elem.pass < MaxElementPasses
  /\ \E shape \in ElementShapes(elem.case) :
       elem' = IF elem.case.SmoothOnSurface
               THEN [elem EXCEPT !.Coord = CoordTable(shape),
                                 !.shapes = Append(@, shape)]
               ELSE [elem EXCEPT !.el.RefCoord = CoordTable(shape),
                                 !.shapes = Append(@, shape)]
  /\ elemPc' = "Tangent"
  /\ UNCHANGED solverVars

(* Compute_Tangent_Matrix(element, config) returns. *)
Element_Tangent ==
  /\ elemPc = "Tangent"
  /\ elem' = [elem EXCEPT
                !.el = Compute_Tangent_Matrix(
                         elem.el, ElementTable(elem.case.nDim, elem.case.kind), elem.case.nDim,
                         config.SmoothingParam, config.SmoothingParamSecond,
                         config.SmoothOnSurface, elem.Coord, elem.heap),
                !.pass = @ + 1]
  /\ elemPc' = "SetCoord"
  /\ UNCHANGED solverVars

(* Compute_Tangent_Matrix writes past a row of its scratch table; the    *)
(* build may stop the process there instead of letting the call return.  *)
Element_Trap ==
  /\ elemPc = "Tangent"
  /\ \E idx \in GradNi_Ref_Mat_Indices(
                   ElementTable(elem.case.nDim, elem.case.kind).nNodes,
                   IF config.SmoothOnSurface THEN elem.case.nDim + 1 ELSE elem.case.nDim) :
       idx[1] >= GradNi_Ref_Mat_Rows \/ idx[2] >= GradNi_Ref_Mat_Cols(elem.case.nDim)
  /\ elemPc' = "Trapped"
  /\ UNCHANGED <<elem, solverVars>>

Next_Element ==
  \/ Element_SetCoord
  \/ Element_Tangent
  \/ Element_Trap

ElementSpec == Init_Element /\ [][Next_Element]_vars

(* ------------------------------------------------------------------ *)
(* Properties                                                          *)
(* ------------------------------------------------------------------ *)

PhaseSuccession ==
  {<<"Reset", "AssembleStiffness">>, <<"AssembleStiffness", "AssembleResidual">>,
   <<"AssembleResidual", "ApplyBoundaryConditions">>,
   <<"ApplyBoundaryConditions", "Solve">>, <<"Solve", "ScatterResult">>,
   <<"ScatterResult", "Reset">>}

(* C1: one invocation runs Reset, AssembleStiffness, AssembleResidual,     *)
(* ApplyBoundaryConditions, Solve, ScatterResult in exactly this order:    *)
(* every change of phase goes to the next phase of the list, every phase   *)
(* other than the marker loop of ApplyBoundaryConditions is left by the    *)
(* step that runs it, and an invocation is complete exactly when           *)
(* ScatterResult has run.                                                  *)
C1_PhaseOrder ==
  [][/\ pc' # pc => <<pc, pc'>> \in PhaseSuccession
     /\ pc # "ApplyBoundaryConditions" => pc' # pc
     /\ pc = "ApplyBoundaryConditions" /\ pc' = pc => iMarker' = iMarker + 1
     /\ nInvocation' = IF pc = "ScatterResult" THEN nInvocation + 1 ELSE nInvocation]_vars

(* Two complete invocations have run. *)
C1_Witness == pc = "Reset" /\ nInvocation = MaxInvocations

SensitivityOfSolution ==
  /\ DOMAIN Sensitivity = 0..(nPoint - 1)
  /\ \A p \in 0..(nPoint - 1) :
       /\ DOMAIN Sensitivity[p] = 0..(nDim - 1)
       /\ \A k \in 0..(nDim - 1) : Sensitivity[p][k] = LinSysSol[p * nDim + k]

(* C9: once Set_Sensitivities has run, the sensitivity of every point p in *)
(* every dimension d is the entry p*nDim+d of the solution vector, and the *)
(* sensitivity field has no other entry.                                   *)
C9_ScatterLayout ==
  (pc = "Reset" /\ nInvocation >= 1) => SensitivityOfSolution

(* Scatter of a solution whose entries are pairwise different. *)
C9_Witness ==
  /\ pc = "Reset" /\ nInvocation >= 1
  /\ \A k \in 0..(nPoint * nDim - 1) : LinSysSol[k] = R(k + 1)
  /\ Sensitivity[1][0] = R(nDim + 1)

NotConverged == ~Solves(Jacobian, LinSysSol, LinSysRes, nPoint, nVar)

(* C10: when the solver returns without meeting the system, the invocation *)
(* is not aborted: the iteration count is on record, Set_Sensitivities is  *)
(* the step that follows, and it copies the returned solution, whatever it *)
(* is, into the sensitivity field.                                         *)
C10_NoAbortOnNonConvergence ==
  /\ (pc = "ScatterResult" /\ NotConverged) =>
       (IterLinSol = MaxLinIter /\ ENABLED Set_Sensitivities)
  /\ (pc = "Reset" /\ nInvocation >= 1 /\ NotConverged) => SensitivityOfSolution

(* An unconverged, non-zero solution has been scattered. *)
C10_Witness ==
  /\ pc = "Reset" /\ nInvocation >= 1 /\ NotConverged
  /\ IterLinSol = MaxLinIter
  /\ LinSysSol # ZeroVector(nPoint * nDim)
  /\ SensitivityOfSolution

AllSupported(geo) ==
  \A e \in 0..(geo.nElem - 1) :
    geo.elem[e].VTK_Type = (IF geo.nDim = 2 THEN TRIANGLE ELSE TETRAHEDRON)

(* The local operator of element iElem, on a handler of its own. *)
LocalOperator(geo, cfg, iElem) ==
  LET tab == ElementTable(geo.nDim, 0)
      own == [NewElement(tab, geo.nDim, 0) EXCEPT !.RefCoord =
                [iNode \in 0..(tab.nNodes - 1) |-> [k \in 0..(geo.nDim - 1) |->
                   R(geo.Coord[geo.elem[iElem].Node[iNode]][k])]]]
  IN  Compute_Tangent_Matrix(own, tab, geo.nDim, cfg.SmoothingParam,
                             cfg.SmoothingParamSecond, cfg.SmoothOnSurface, NoCoord, RowSlack)

(* The local operators of elements 0 .. k-1, as a sequence. *)
RECURSIVE LocalOperators(_, _, _)
LocalOperators(geo, cfg, k) ==
  IF k = 0 THEN <<>>
  ELSE Append(LocalOperators(geo, cfg, k - 1), LocalOperator(geo, cfg, k - 1))

(* Block (a, b) of the sum, over every element and every pair (i, j) of    *)
(* its nodes with global indices (a, b), of DHiDHj[i][j] - HiHj[i][j] * I; *)
(* m counts the (element, i, j) triples.                                   *)
RECURSIVE ScatterSum(_, _, _, _, _)
ScatterSum(geo, ops, a, b, m) ==
  IF m = 0 THEN ZeroBlock(geo.nDim)
  ELSE LET NelNodes == ElementTable(geo.nDim, 0).nNodes
           e == (m - 1) \div (NelNodes * NelNodes)
           i == ((m - 1) % (NelNodes * NelNodes)) \div NelNodes
           j == (m - 1) % NelNodes
           rest == ScatterSum(geo, ops, a, b, m - 1)
       IN  IF geo.elem[e].Node[i] = a /\ geo.elem[e].Node[j] = b
           THEN [iVar \in 0..(geo.nDim - 1) |-> [jVar \in 0..(geo.nDim - 1) |->
                   Add(rest[iVar][jVar],
                       Sub(ops[e + 1].DHiDHj[i][j][iVar][jVar],
                           IF iVar = jVar THEN ops[e + 1].HiHj[i][j] ELSE Zero))]]
           ELSE rest

(* C2: after AssembleStiffness the block (a, b) of the global matrix is    *)
(* the sum, over all elements and all pairs (i, j) of their local nodes    *)
(* mapped to (a, b), of DHiDHj[i][j] - HiHj[i][j] * I: contributions of    *)
(* elements that share a node add up, and nothing else is in the matrix.   *)
C2_StiffnessScatterAdd ==
  (pc = "AssembleResidual" /\ AllSupported(geometry)) =>
    LET ops == LocalOperators(geometry, config, geometry.nElem)
    IN  \A a, b \in 0..(nPoint - 1) :
          Jacobian[a][b] =
            ScatterSum(geometry, ops, a, b,
                       geometry.nElem * ElementTable(nDim, 0).nNodes
                                      * ElementTable(nDim, 0).nNodes)

(* Two triangles share an edge: the block of a shared node holds the sum   *)
(* of two contributions, in the second invocation as in the first.         *)
C2_Witness ==
  /\ pc = "AssembleResidual" /\ geometry = G_Halo /\ nInvocation = 1
  /\ config.SmoothingParam = One /\ config.SmoothingParamSecond = One
  /\ LET ops == LocalOperators(geometry, config, 2)
     IN  /\ Jacobian[1][1][0][0] =
              Add(Sub(ops[1].DHiDHj[1][1][0][0], ops[1].HiHj[1][1]),
                  Sub(ops[2].DHiDHj[0][0][0][0], ops[2].HiHj[0][0]))
         /\ ops[2].DHiDHj[0][0][0][0] # Zero
         /\ ops[1].DHiDHj[1][1][0][0] # Zero

AllNeumann == \A m \in 0..(geometry.nMarker - 1) : config.Marker_All_SobolevBC[m] = YES

(* C3: on a mesh whose markers are all Neumann the assembled matrix is     *)
(* symmetric, after AssembleStiffness and after ApplyBoundaryConditions:   *)
(* entry (iVar, jVar) of block (a, b) is entry (jVar, iVar) of block       *)
(* (b, a).                                                                 *)
C3_SymmetricMatrix ==
  (AllNeumann /\ pc \in {"AssembleResidual", "ApplyBoundaryConditions", "Solve"}) =>
    \A a, b \in 0..(nPoint - 1) : \A iVar, jVar \in 0..(nDim - 1) :
      Jacobian[a][b][iVar][jVar] = Jacobian[b][a][jVar][iVar]

(* Boundary conditions are done on an all-Neumann mesh, and the matrix has *)
(* a non-zero block off its diagonal.                                      *)
C3_Witness ==
  /\ AllNeumann /\ pc = "Solve" /\ AllSupported(geometry)
  /\ \E a, b \in 0..(nPoint - 1) :
       a # b /\ IsFinite(Jacobian[a][b][0][0]) /\ Jacobian[a][b][0][0] # Zero

(* The nodes that lie on a marker with SobolevBC == NO. *)
DirichletNodes ==
  UNION {{geometry.vertex[m][v] : v \in 0..(geometry.nVertex[m] - 1)} :
           m \in {mk \in 0..(geometry.nMarker - 1) : config.Marker_All_SobolevBC[mk] = NO}}

(* Row and column k hold the identity on the diagonal and zero elsewhere;  *)
(* right-hand side and solution of k are zero.                             *)
Decoupled(k) ==
  /\ Jacobian[k][k] = mId_Aux(nDim)
  /\ \A j \in 0..(nPoint - 1) \ {k} :
       Jacobian[k][j] = mZeros_Aux(nDim) /\ Jacobian[j][k] = mZeros_Aux(nDim)
  /\ \A iVar \in 0..(nDim - 1) :
       LinSysRes[k * nDim + iVar] = Zero /\ LinSysSol[k * nDim + iVar] = Zero

(* C4, as claimed: after ApplyBoundaryConditions every node on a Dirichlet *)
(* marker is decoupled.                                                    *)
C4_EveryDirichletNodeDecoupled ==
  pc = "Solve" => \A k \in DirichletNodes : Decoupled(k)

(* C4: after ApplyBoundaryConditions every node on a Dirichlet marker that *)
(* this process owns is decoupled: its row and column are zero except the  *)
(* identity on the diagonal, and its right-hand side and solution entries  *)
(* are zero in every dimension.                                            *)
C4_OwnedDirichletNodeDecoupled ==
  pc = "Solve" => \A k \in DirichletNodes : geometry.Domain[k] => Decoupled(k)

(* An owned Dirichlet node is decoupled next to rows that still couple. *)
C4_Witness ==
  /\ pc = "Solve" /\ AllSupported(geometry)
  /\ \E k \in DirichletNodes :
       /\ geometry.Domain[k] /\ Decoupled(k)
       /\ \E a, b \in 0..(nPoint - 1) \ {k} : a # b /\ Jacobian[a][b] # mZeros_Aux(nDim)

(* The right-hand side entry of (node, iDim): the sum, over every element, *)
(* quadrature point and local node mapped to `node`, of                    *)
(* weight * J * Ni * sensitivity(node, iDim), J being the element's own.   *)
ResidualSum(geo, ops, sens, node, iDim) ==
  LET tab == ElementTable(geo.nDim, 0)
      span == tab.nGaussPoints * tab.nNodes
      term(m) ==
        LET e == m \div span
            iGauss == (m % span) \div tab.nNodes
            iNode == m % tab.nNodes
        IN  IF geo.elem[e].Node[iNode] = node
            THEN Mul(Mul(Mul(tab.GaussWeight[iGauss], ops[e + 1].J_X[iGauss]),
                         tab.Ni[iGauss][iNode]), sens[node][iDim])
            ELSE Zero
  IN  SumR([m \in 0..(geo.nElem * span - 1) |-> term(m)], geo.nElem * span)

(* C5: after AssembleResidual the right-hand side entry of every node and  *)
(* dimension is the accumulated sum of weight * J * Ni * sensitivity over  *)
(* the elements, quadrature points and local nodes that map to the node.   *)
C5_ResidualScatterAdd ==
  (pc = "ApplyBoundaryConditions" /\ iMarker = 0 /\ AllSupported(geometry)) =>
    LET ops == LocalOperators(geometry, config, geometry.nElem)
    IN  \A node \in 0..(nPoint - 1) : \A k \in 0..(nDim - 1) :
          LinSysRes[node * nDim + k] = ResidualSum(geometry, ops, Sensitivity, node, k)

HasUnsupported(geo) == ~AllSupported(geo)

(* C6: on a mesh with an element of unsupported tag the invocation ends in *)
(* AssembleStiffness: the matrix receives nothing for that element, the    *)
(* solver is never called and no invocation completes.                     *)
C6_UnsupportedTagAborts ==
  HasUnsupported(geometry) =>
    /\ pc \in {"Reset", "AssembleStiffness"}
    /\ nInvocation = 0
    /\ Jacobian = ZeroMatrix(nPoint, nDim)

(* The adjugate determinant of element e, from its node coordinates. *)
DetJacOf(geo, e) ==
  LET tab == ElementTable(geo.nDim, 0)
      own == [RefCoord |-> [iNode \in 0..(tab.nNodes - 1) |-> [k \in 0..(geo.nDim - 1) |->
                              R(geo.Coord[geo.elem[e].Node[iNode]][k])]]]
  IN  IF geo.nDim = 2 THEN DetJac2D(Adjoint2D(Jacobian2D(own, tab, 0)))
      ELSE DetJac3D(Jacobian3D(own, tab, 0), Adjoint3D(Jacobian3D(own, tab, 0)))

HasBadJacobian(geo) ==
  /\ AllSupported(geo)
  /\ \E e \in 0..(geo.nElem - 1) : DetJacOf(geo, e)[1] <= 0

(* C7: on a mesh with an element whose Jacobian determinant is zero or     *)
(* negative no gradient is stored from a division by it and the invocation *)
(* ends before the solver is called: the handler's gradients stay as they  *)
(* were allocated, and Solve never runs.                                   *)
C7_BadJacobianAborts ==
  HasBadJacobian(geometry) =>
    /\ pc \notin {"ScatterResult"} /\ nInvocation = 0
    /\ \A iNode \in 0..(ElementTable(nDim, 0).nNodes - 1) : \A k \in 0..(nDim - 1) :
         element_container[0].GradNi_X[0][iNode][k] = Zero

SystemIsZero ==
  /\ Jacobian = ZeroMatrix(nPoint, nVar)
  /\ LinSysRes = ZeroVector(nPoint * nVar)
  /\ LinSysSol = ZeroVector(nPoint * nVar)

(* C8: every invocation starts its assembly from a zero matrix, a zero     *)
(* right-hand side and a zero solution, and a later invocation that gets   *)
(* the sensitivity input of the first one assembles the matrix and the     *)
(* right-hand side the first one assembled.                                *)
C8_InvocationStartsAfresh ==
  /\ pc = "AssembleStiffness" => SystemIsZero
  /\ (/\ pc = "ApplyBoundaryConditions" /\ iMarker = 0 /\ nInvocation >= 1
      /\ Sensitivity = firstAssembly.Sensitivity) =>
       /\ Jacobian = firstAssembly.Jacobian
       /\ LinSysRes = firstAssembly.LinSysRes

MarkerNodes(m) == {geometry.vertex[m][v] : v \in 0..(geometry.nVertex[m] - 1)}

DirichletMarkerIsNext ==
  /\ iMarker < geometry.nMarker
  /\ config.Marker_All_SobolevBC[iMarker] = NO

(* C12: in ApplyBoundaryConditions a step that processes a Neumann marker  *)
(* leaves the matrix, the right-hand side and the solution vector as they  *)
(* are; the only steps of the phase that write any of the three are those  *)
(* that process a Dirichlet marker.                                        *)
C12_NeumannWritesNothing ==
  [][(pc = "ApplyBoundaryConditions" /\ ~DirichletMarkerIsNext) =>
       UNCHANGED <<Jacobian, LinSysRes, LinSysSol>>]_vars

(* A Neumann marker has been processed on an assembled system, which is    *)
(* still the one the first assembly produced.                              *)
C12_Witness ==
  /\ pc = "ApplyBoundaryConditions" /\ iMarker = 1 /\ nInvocation = 0
  /\ config.Marker_All_SobolevBC[0] = YES
  /\ AllSupported(geometry)
  /\ Jacobian = firstAssembly.Jacobian /\ LinSysRes = firstAssembly.LinSysRes
  /\ Jacobian # ZeroMatrix(nPoint, nVar)
  /\ LinSysRes # ZeroVector(nPoint * nVar)

HasPinnedNode == \E k \in DirichletNodes : geometry.Domain[k]

(* C13: while the input sensitivity field is all zero the right-hand side  *)
(* is zero at every node and dimension after AssembleResidual and after    *)
(* ApplyBoundaryConditions, and when a node is Dirichlet-pinned the field  *)
(* written by ScatterResult for an all-zero first input is all zero.       *)
C13_ZeroInputZeroOutput ==
  /\ (/\ Sensitivity = ZeroField(geometry)
      /\ pc \in {"ApplyBoundaryConditions", "Solve", "ScatterResult"}) =>
       LinSysRes = ZeroVector(nPoint * nVar)
  /\ (/\ pc = "Reset" /\ nInvocation = 1 /\ HasPinnedNode
      /\ firstAssembly.Sensitivity = ZeroField(geometry)) =>
       Sensitivity = ZeroField(geometry)

NonDegenerate(geo) ==
  /\ AllSupported(geo)
  /\ \A e \in 0..(geo.nElem - 1) : DetJacOf(geo, e)[1] > 0

MatrixIsSymmetric ==
  \A a, b \in 0..(nPoint - 1) : \A iVar, jVar \in 0..(nDim - 1) :
    Jacobian[a][b][iVar][jVar] = Jacobian[b][a][jVar][iVar]

(* The vectors the quadratic form is evaluated on: the unit vectors and    *)
(* the vector of ones.                                                     *)
TestVectors ==
  {[k \in 0..(nPoint * nDim - 1) |-> IF k = u THEN One ELSE Zero] :
     u \in 0..(nPoint * nDim - 1)}
  \cup {[k \in 0..(nPoint * nDim - 1) |-> One]}

(* x^T A x for the assembled matrix. *)
QuadForm(x) ==
  LET Ax == MatVec(Jacobian, x, nPoint, nDim)
  IN  SumR([k \in 0..(nPoint * nDim - 1) |-> Mul(x[k], Ax[k])], nPoint * nDim)

(* C14: on a non-degenerate mesh the assembled matrix is symmetric with    *)
(* x^T A x >= 0 for every x, and the matrix handed to the solver after     *)
(* Dirichlet enforcement on owned nodes is symmetric with x^T A x > 0 for  *)
(* every non-zero x.                                                       *)
C14_SymmetricPositive ==
  /\ (NonDegenerate(geometry) /\ pc = "AssembleResidual") =>
       /\ MatrixIsSymmetric
       /\ \A x \in TestVectors : QuadForm(x)[1] >= 0 /\ IsFinite(QuadForm(x))
  /\ (/\ NonDegenerate(geometry) /\ pc = "Solve" /\ HasPinnedNode
      /\ \A k \in DirichletNodes : geometry.Domain[k]) =>
       /\ MatrixIsSymmetric
       /\ \A x \in TestVectors : QuadForm(x)[1] > 0

(* ------------------------------------------------------------------ *)
(* The element handler on its own                                      *)
(* ------------------------------------------------------------------ *)

(* Compute_Tangent_Matrix has returned for the element whose coordinates *)
(* the handler still holds.                                              *)
TangentReturned == elemPc = "SetCoord" /\ elem.pass > 0

elemTable == ElementTable(elem.case.nDim, elem.case.kind)

elemGauss == 0..(elemTable.nGaussPoints - 1)

elemNodes == 0..(elemTable.nNodes - 1)

(* The determinant the 2D gradient computation divides by at one Gauss point. *)
detJac2D(iGauss) == DetJac2D(Adjoint2D(Jacobian2D(elem.el, elemTable, iGauss)))

(* C15: in the 2D reference-frame gradient computation, for every        *)
(* non-degenerate, correctly oriented triangle or quadrilateral and      *)
(* every quadrature point, the stored J_X (cross product of the edges    *)
(* from node 0 to nodes 1 and 2) equals the magnitude of the adjugate-   *)
(* based determinant detJac used to invert the Jacobian at that point.   *)
C15_StoredJacobianIsDeterminant ==
  (/\ TangentReturned
   /\ elem.case.nDim = 2 /\ ~elem.case.SmoothOnSurface
   /\ \A iGauss \in elemGauss : detJac2D(iGauss)[1] > 0) =>
    \A iGauss \in elemGauss : elem.el.J_X[iGauss] = AbsR(detJac2D(iGauss))

(* The number of gradient components of the element: one more than its *)
(* dimension on a curved surface.                                      *)
elemDimGlobal == IF elem.case.SmoothOnSurface THEN elem.case.nDim + 1 ELSE elem.case.nDim

(* The parametric shape derivatives of the family sum to zero over the nodes. *)
TableSumsToZero(tab) ==
  \A iGauss \in 0..(tab.nGaussPoints - 1) : \A d \in DOMAIN tab.dNiXj[iGauss][0] :
    SumR([iNode \in 0..(tab.nNodes - 1) |-> tab.dNiXj[iGauss][iNode][d]], tab.nNodes) = Zero

(* The Jacobian of the element could be inverted: every stored gradient is finite. *)
GradientsFinite ==
  \A iGauss \in elemGauss : \A iNode \in elemNodes : \A iDim \in 0..(elemDimGlobal - 1) :
    IsFinite(elem.el.GradNi_X[iGauss][iNode][iDim])

(* C16: for a non-degenerate element whose parametric shape-derivative  *)
(* table sums to zero over the nodes, the physical gradients stored by   *)
(* ComputeGrad_1D/2D/3D and by the curved-surface variants sum to the    *)
(* zero vector over the nodes, at every quadrature point and in every    *)
(* dimension.                                                            *)
C16_GradientsSumToZero ==
  (TangentReturned /\ TableSumsToZero(elemTable) /\ GradientsFinite) =>
    \A iGauss \in elemGauss : \A iDim \in 0..(elemDimGlobal - 1) :
      SumR([iNode \in elemNodes |-> elem.el.GradNi_X[iGauss][iNode][iDim]],
           elemTable.nNodes) = Zero

(* A quadrilateral that is not a parallelogram: its gradients differ from *)
(* one quadrature point to the next and are not all zero.                *)
C16_Witness ==
  /\ TangentReturned /\ TableSumsToZero(elemTable) /\ GradientsFinite
  /\ elem.case.family = "QUADRILATERAL"
  /\ elem.el.GradNi_X[0] # elem.el.GradNi_X[2]
  /\ \E iNode \in elemNodes : elem.el.GradNi_X[0][iNode][0] # Zero

(* The dot product of the gradients of nodes i and j at one Gauss point, *)
(* over all components of the gradient.                                 *)
PairDot(iGauss, i, j) ==
  SumR([iDim \in 0..(elemDimGlobal - 1) |->
          Mul(elem.el.GradNi_X[iGauss][i][iDim], elem.el.GradNi_X[iGauss][j][iDim])],
       elemDimGlobal)

(* Sum over the Gauss points of w * J * epsilon^2 * (GradNi_X . GradNj_X). *)
StiffnessEntry(i, j) ==
  SumR([iGauss \in elemGauss |->
          Mul(Mul(Mul(Mul(elemTable.GaussWeight[iGauss], elem.el.J_X[iGauss]),
                      config.SmoothingParam), config.SmoothingParam),
              PairDot(iGauss, i, j))],
       elemTable.nGaussPoints)

(* C17: after Compute_Tangent_Matrix on an element, for every local node *)
(* pair (i, j) the block DHiDHj[i][j] is diagonal with every diagonal    *)
(* entry equal to the sum over the quadrature points of                  *)
(* w * J * epsilon^2 * (GradNi_X . GradNj_X), the dot product being that *)
(* of the pair's own gradients at the point, and DHiDHj[j][i] is the     *)
(* transpose of DHiDHj[i][j].                                            *)
C17_StiffnessBlocks ==
  TangentReturned =>
    \A i \in elemNodes : \A j \in elemNodes :
      \A a \in 0..(elem.case.nDim - 1) : \A b \in 0..(elem.case.nDim - 1) :
        /\ elem.el.DHiDHj[i][j][a][b] = (IF a = b THEN StiffnessEntry(i, j) ELSE Zero)
        /\ elem.el.DHiDHj[j][i][a][b] = elem.el.DHiDHj[i][j][b][a]

(* Sum over the Gauss points of w * J * zeta * Ni * Nj, J the stored J_X. *)
MassEntry(i, j) ==
  SumR([iGauss \in elemGauss |->
          Mul(Mul(Mul(Mul(elemTable.GaussWeight[iGauss], elem.el.J_X[iGauss]),
                      config.SmoothingParamSecond),
                  elemTable.Ni[iGauss][i]), elemTable.Ni[iGauss][j])],
       elemTable.nGaussPoints)

(* C18: after Compute_Tangent_Matrix on an element, for every ordered    *)
(* local node pair (i, j) the scalar HiHj[i][j] equals the sum over the  *)
(* quadrature points of w * J * zeta * Ni * Nj, one contribution per     *)
(* ordered pair and point, so that HiHj[i][j] = HiHj[j][i].              *)
C18_MassEntries ==
  TangentReturned =>
    \A i \in elemNodes : \A j \in elemNodes :
      /\ elem.el.HiHj[i][j] = MassEntry(i, j)
      /\ elem.el.HiHj[i][j] = elem.el.HiHj[j][i]

(* A quadrilateral with four Gauss points and zeta # 0: the entries are  *)
(* sums of four contributions and differ between pairs.                  *)
C18_Witness ==
  /\ TangentReturned
  /\ elem.case.family = "QUADRILATERAL"
  /\ config.SmoothingParamSecond # Zero
  /\ IsFinite(elem.el.HiHj[0][1]) /\ elem.el.HiHj[0][1] # Zero
  /\ elem.el.HiHj[0][0] # elem.el.HiHj[0][1]
  /\ elem.el.HiHj[1][0] # elem.el.HiHj[2][0]

(* The local operator of the element the handler holds, computed by a   *)
(* handler that has processed no element before.                        *)
FreshOperator ==
  LET tab == elemTable
      own == [AllocateStructures(tab, elem.case.nDim, 0, elem.body_forces)
                EXCEPT !.RefCoord = elem.el.RefCoord]
  IN  Compute_Tangent_Matrix(own, tab, elem.case.nDim, config.SmoothingParam,
                             config.SmoothingParamSecond, config.SmoothOnSurface,
                             elem.Coord, elem.heap)

(* C19: the accumulators DHiDHj and HiHj are zero before the first       *)
(* accumulation of every pass: the local operator a shared handler       *)
(* computes for an element is the same whatever elements it processed    *)
(* before, and the clearing step does not touch an optional buffer that  *)
(* was not allocated.                                                    *)
C19_HandlerStartsCleared ==
  TangentReturned =>
    /\ elem.el.DHiDHj = FreshOperator.DHiDHj
    /\ elem.el.HiHj = FreshOperator.HiHj
    /\ (~elem.body_forces => elem.el.FDL_a = NULL)
    /\ (elem.body_forces => elem.el.FDL_a = ZeroTable(elemTable.nNodes, elem.case.nDim))

(* The second element of a handler without body-force buffer, after a   *)
(* first element of another shape that left non-zero accumulators.      *)
C19_Witness ==
  /\ TangentReturned
  /\ elem.pass = 2
  /\ elem.shapes[1] # elem.shapes[2]
  /\ ~elem.body_forces /\ elem.el.FDL_a = NULL
  /\ config.SmoothingParam # Zero /\ config.SmoothingParamSecond # Zero
  /\ elem.el.HiHj[0][0] # Zero /\ elem.el.DHiDHj[0][0][0][0] # Zero
  /\ IsFinite(elem.el.HiHj[0][0]) /\ IsFinite(elem.el.DHiDHj[0][0][0][0])

(* Compute_Tangent_Matrix has run its gradient loops on the element: it *)
(* returned or the process was stopped in it.                          *)
TangentRan == TangentReturned \/ elemPc = "Trapped"

(* C20: every index Compute_Tangent_Matrix uses on its scratch table     *)
(* GradNi_Ref_Mat stays inside the allocated extent, 8 rows of nDim      *)
(* entries, for every supported element and for both settings of the     *)
(* curved-surface flag, the surface setting with its nDim+1 components   *)
(* included.                                                             *)
C20_ScratchIndicesInExtent ==
  TangentRan =>
    \A idx \in GradNi_Ref_Mat_Indices(elemTable.nNodes, elemDimGlobal) :
      /\ idx[1] < GradNi_Ref_Mat_Rows
      /\ idx[2] < GradNi_Ref_Mat_Cols(elem.case.nDim)

(* element->GetJ_X(iGauss) as Compute_Residual reads it in the pass of     *)
(* element iElem: the entry of the shared handler of the element's family. *)
(* Compute_Residual hands the handler no coordinates and runs no gradient  *)
(* computation, so the entry is the one Compute_StiffMatrix left there.    *)
Residual_Jac_X(iElem, iGauss) ==
  element_container[Dispatch(geometry.elem[iElem].VTK_Type, 0, 0).EL_KIND].J_X[iGauss]

(* The mesh has two elements of one family whose Jacobians differ. *)
TwoSizes(ops) ==
  \E a, b \in 0..(geometry.nElem - 1) :
    /\ geometry.elem[a].VTK_Type = geometry.elem[b].VTK_Type
    /\ ops[a + 1].J_X[0] # ops[b + 1].J_X[0]

(* C21: in AssembleResidual the Jacobian value used for mesh element e is  *)
(* the one of e's own geometry: for every element and quadrature point the *)
(* value read for the product weight * J * Ni * sensitivity equals the     *)
(* Jacobian computed from e's coordinates, also on a mesh whose elements   *)
(* of one family differ in size, and is not the value the last element of  *)
(* AssembleStiffness left in the shared handler.                           *)
C21_ResidualUsesOwnJacobian ==
  (pc = "ApplyBoundaryConditions" /\ iMarker = 0 /\ AllSupported(geometry)) =>
    LET ops == LocalOperators(geometry, config, geometry.nElem)
        nGauss == ElementTable(nDim, 0).nGaussPoints
    IN  \A e \in 0..(geometry.nElem - 1) : \A iGauss \in 0..(nGauss - 1) :
          Residual_Jac_X(e, iGauss) = ops[e + 1].J_X[iGauss]

(* AssembleResidual has run on a mesh of two triangles of different size. *)
C21_TwoSizesAssembled ==
  /\ pc = "ApplyBoundaryConditions" /\ iMarker = 0 /\ AllSupported(geometry)
  /\ TwoSizes(LocalOperators(geometry, config, geometry.nElem))

====
